---------------------------- MODULE Spec2Model ----------------------------
(***************************************************************************)
(* Model of tkeyclient: the framing codec of proto.py, the dispatcher      *)
(* send_command, and of tkey.py the application upload TKey.load_app, the  *)
(* queries get_name_version and get_udi and the handle as a context        *)
(* manager.                                                                *)
(*                                                                         *)
(* Six specifications share the actions: Spec is one load_app on an open   *)
(* handle, SpecSend one call of send_command with any command, header and  *)
(* response id, SpecScope one with-statement around an operation,          *)
(* SpecHandle the life of a handle from its constructor on, SpecCodec one  *)
(* call of create_frame, parse_header or byte_length, SpecFair is Spec     *)
(* with the program always taking its next step.                           *)
(*                                                                         *)
(* Bytes are integers 0..255, byte strings are sequences (1-based here,    *)
(* 0-based in the source: frame offset k is element k+1).  The serial      *)
(* device and the file system are the environment: what a conn.read or a   *)
(* file access yields is chosen nondeterministically from bounded sets.    *)
(***************************************************************************)
EXTENDS Integers, Sequences, FiniteSets, TLC

(***************************************************************************)
(* Program constants                                                       *)
(***************************************************************************)
ENDPOINT_FW == 2

APP_MAXSIZE == 102400

\* a chunk that fills the whole 128-byte payload
CHUNK_SIZE_Payload == 127 + 1

CHUNK_SIZE == 127

DIGEST_SIZE == 32

\* the frame ID tag every TKey method passes to send_command
FRAME_ID == 2

DEFAULT_SPEED == 62500

DEFAULT_TIMEOUT == 1

cmdNameVersion == [id |-> 1, length |-> 0]
rspNameVersion == [id |-> 2, length |-> 2]
cmdLoadApp == [id |-> 3, length |-> 3]
rspLoadApp == [id |-> 4, length |-> 1]
cmdLoadAppData == [id |-> 5, length |-> 3]
rspLoadAppData == [id |-> 6, length |-> 1]
rspLoadAppDataReady == [id |-> 7, length |-> 3]
cmdGetUDI == [id |-> 8, length |-> 0]
rspGetUDI == [id |-> 9, length |-> 2]

\* a table of the powers of two
PROTO_DATA_LENGTH_Doubling == <<1, 2, 4, 8>>

PROTO_DATA_LENGTH == <<1, 4, 32, 128>>

(***************************************************************************)
(* Bounds of the model                                                     *)
(***************************************************************************)
\* cap on the iterations of the file-reading loop of _load_app_data
MaxReads == 4

\* calls made on a handle after its construction
MaxCalls == 4

(***************************************************************************)
(* Byte-string helpers (Python semantics)                                  *)
(***************************************************************************)
Min(a, b) == IF a < b THEN a ELSE b

Max(a, b) == IF a > b THEN a ELSE b

\* bytearray(n): n zero bytes
Zeros(n) == [i \in 1..n |-> 0]

\* s[a:b] for 0 <= a, 0 <= b (0-based, end exclusive, clipped to the string)
Slice(s, a, b) ==
    LET lo == Min(a, Len(s))
        hi == Max(lo, Min(b, Len(s)))
    IN  SubSeq(s, lo + 1, hi)

\* a slice assignment that cannot make the sequence longer
SliceAssign_KeepsLength(s, a, b, x) ==
    LET lo == Min(a, Len(s))
        hi == Max(lo, Min(b, Len(s)))
    IN  SubSeq(SubSeq(s, 1, lo) \o x \o SubSeq(s, hi + 1, Len(s)), 1, Len(s))

\* s[a:b] = x on a bytearray: the slice is replaced, the array is resized
SliceAssign(s, a, b, x) ==
    LET lo == Min(a, Len(s))
        hi == Max(lo, Min(b, Len(s)))
    IN  SubSeq(s, 1, lo) \o x \o SubSeq(s, hi + 1, Len(s))

\* int.to_bytes(4, byteorder='little'), for 0 <= n < 2^32
ToBytesLE4(n) ==
    <<n % 256, (n \div 256) % 256, (n \div 65536) % 256, (n \div 16777216) % 256>>

\* UTF-8 encoding of one code point (no surrogates)
Utf8Char(c) ==
    IF c < 128 THEN <<c>>
    ELSE IF c < 2048 THEN <<192 + (c \div 64), 128 + (c % 64)>>
    ELSE IF c < 65536
         THEN <<224 + (c \div 4096), 128 + ((c \div 64) % 64), 128 + (c % 64)>>
    ELSE <<240 + (c \div 262144), 128 + ((c \div 4096) % 64),
           128 + ((c \div 64) % 64), 128 + (c % 64)>>

RECURSIVE Utf8(_)
\* bytes(s, encoding='utf8') of a string given as its code points
Utf8(s) ==
    IF s = <<>> THEN <<>>
    ELSE IF Len(s) = 1 THEN Utf8Char(s[1])
    ELSE Utf8(SubSeq(s, 1, Len(s) \div 2)) \o Utf8(SubSeq(s, (Len(s) \div 2) + 1, Len(s)))

HexDigit == <<"0", "1", "2", "3", "4", "5", "6", "7",
              "8", "9", "a", "b", "c", "d", "e", "f">>

\* bytes.hex(): two lowercase hex digits per byte
Hex(b) ==
    [i \in 1..(2 * Len(b)) |->
        IF i % 2 = 1 THEN HexDigit[(b[(i + 1) \div 2] \div 16) + 1]
                     ELSE HexDigit[(b[i \div 2] % 16) + 1]]

(***************************************************************************)
(* Errors: an operation ends with a result record                          *)
(***************************************************************************)
Running == [kind |-> "running", args |-> <<>>]

Returned == [kind |-> "ok", args |-> <<>>]

Raise(kind, args) == [kind |-> kind, args |-> args]

(***************************************************************************)
(* proto.py: the frame codec                                               *)
(***************************************************************************)
\* the length taken to count the header byte as well
byte_length_WithHeader(index) ==
    IF index + 1 > Len(PROTO_DATA_LENGTH)
    THEN [ok |-> FALSE, err |-> Raise("TKeyProtocolError", <<"Invalid command length value">>)]
    ELSE IF index >= 0
    THEN [ok |-> TRUE, value |-> 1 + PROTO_DATA_LENGTH[index + 1]]
    ELSE IF index >= -Len(PROTO_DATA_LENGTH)
    THEN [ok |-> TRUE, value |-> 1 + PROTO_DATA_LENGTH[Len(PROTO_DATA_LENGTH) + index + 1]]
    ELSE [ok |-> FALSE, err |-> Raise("IndexError", <<"list index out of range">>)]

\* byte_length(index): a Protocol error above the table; Python indexes a
\* negative index from the end of the list
byte_length(index) ==
    IF index + 1 > Len(PROTO_DATA_LENGTH)
    THEN [ok |-> FALSE, err |-> Raise("TKeyProtocolError", <<"Invalid command length value">>)]
    ELSE IF index >= 0
    THEN [ok |-> TRUE, value |-> PROTO_DATA_LENGTH[index + 1]]
    ELSE IF index >= -Len(PROTO_DATA_LENGTH)
    THEN [ok |-> TRUE, value |-> PROTO_DATA_LENGTH[Len(PROTO_DATA_LENGTH) + index + 1]]
    ELSE [ok |-> FALSE, err |-> Raise("IndexError", <<"list index out of range">>)]

\* the endpoint taken one bit too high
parse_header_Shifted(header) ==
    [frame_id |-> (header \div 32) % 4,
     endpoint |-> (header \div 16) % 4,
     status   |-> (header \div 4) % 4,
     length   |-> header % 4]

\* parse_header(header) -> (frame_id, endpoint, status, length)
parse_header(header) ==
    [frame_id |-> (header \div 32) % 4,
     endpoint |-> (header \div 8) % 4,
     status   |-> (header \div 4) % 4,
     length   |-> header % 4]

\* frame id and endpoint in each other's place
PackHeader_Swapped(frame_id, endpoint, length) == endpoint * 32 + frame_id * 8 + length

\* the header byte create_frame packs
PackHeader(frame_id, endpoint, length) == frame_id * 32 + endpoint * 8 + length

\* the range checks without their lower ends
create_frame_NoLower(cmd, frame_id, endpoint, data) ==
    IF cmd.id > 255
    THEN [ok |-> FALSE, err |-> Raise("TKeyProtocolError", <<"Command ID must not exceed one byte [0..255]">>)]
    ELSE IF frame_id > 3
    THEN [ok |-> FALSE, err |-> Raise("TKeyProtocolError", <<"Frame ID must not exceed two bits [0..3]">>)]
    ELSE IF endpoint > 3
    THEN [ok |-> FALSE, err |-> Raise("TKeyProtocolError", <<"Frame ID must not exceed two bits [0..3]">>)]
    ELSE IF cmd.length > 3
    THEN [ok |-> FALSE, err |-> Raise("TKeyProtocolError", <<"Length value must not exceed two bits [0..3]">>)]
    ELSE IF Len(data) > 0 /\ Len(data) > byte_length(cmd.length).value
    THEN [ok |-> FALSE, err |-> Raise("TKeyProtocolError", <<"Data exceeds command data length in header">>)]
    ELSE LET header == PackHeader(frame_id, endpoint, cmd.length)
             blank  == Zeros(1 + byte_length(cmd.length).value)
             framed == [blank EXCEPT ![1] = header, ![2] = cmd.id]
         IN  [ok |-> TRUE,
              frame |-> IF Len(data) > 0
                        THEN SliceAssign(framed, 2, 2 + Len(data), data)
                        ELSE framed]

\* create_frame(cmd, frame_id, endpoint, data)
create_frame(cmd, frame_id, endpoint, data) ==
    IF cmd.id < 0 \/ cmd.id > 255
    THEN [ok |-> FALSE, err |-> Raise("TKeyProtocolError", <<"Command ID must not exceed one byte [0..255]">>)]
    ELSE IF frame_id < 0 \/ frame_id > 3
    THEN [ok |-> FALSE, err |-> Raise("TKeyProtocolError", <<"Frame ID must not exceed two bits [0..3]">>)]
    ELSE IF endpoint < 0 \/ endpoint > 3
    THEN [ok |-> FALSE, err |-> Raise("TKeyProtocolError", <<"Frame ID must not exceed two bits [0..3]">>)]
    ELSE IF cmd.length < 0 \/ cmd.length > 3
    THEN [ok |-> FALSE, err |-> Raise("TKeyProtocolError", <<"Length value must not exceed two bits [0..3]">>)]
    ELSE IF Len(data) > 0 /\ Len(data) > byte_length(cmd.length).value
    THEN [ok |-> FALSE, err |-> Raise("TKeyProtocolError", <<"Data exceeds command data length in header">>)]
    ELSE LET header == PackHeader(frame_id, endpoint, cmd.length)
             blank  == Zeros(1 + byte_length(cmd.length).value)
             framed == [blank EXCEPT ![1] = header, ![2] = cmd.id]
         IN  [ok |-> TRUE,
              frame |-> IF Len(data) > 0
                        THEN SliceAssign(framed, 2, 2 + Len(data), data)
                        ELSE framed]

\* ensure_frames(command, response)
\* the endpoints of the two headers not compared
ensure_frames_FrameIdOnly(command, response) ==
    LET cmd_header == parse_header(command[1])
        res_header == parse_header(response[1])
        cid == command[2]
        rid == response[2]
    IN  IF cmd_header.frame_id # res_header.frame_id
        THEN FALSE
        ELSE IF cid = cmdNameVersion.id /\ rid # rspNameVersion.id THEN FALSE
        ELSE IF cid = cmdLoadApp.id /\ rid # rspLoadApp.id THEN FALSE
        ELSE IF cid = cmdLoadAppData.id
             THEN rid \in {rspLoadAppData.id, rspLoadAppDataReady.id}
        ELSE IF cid = cmdGetUDI.id /\ rid # rspGetUDI.id THEN FALSE
        ELSE TRUE

\* every response passes for the answer to every command
ensure_frames_Always(command, response) == TRUE

ensure_frames(command, response) ==
    LET cmd_header == parse_header(command[1])
        res_header == parse_header(response[1])
        cid == command[2]
        rid == response[2]
    IN  IF <<cmd_header.frame_id, cmd_header.endpoint>>
             # <<res_header.frame_id, res_header.endpoint>>
        THEN FALSE
        ELSE IF cid = cmdNameVersion.id /\ rid # rspNameVersion.id THEN FALSE
        ELSE IF cid = cmdLoadApp.id /\ rid # rspLoadApp.id THEN FALSE
        ELSE IF cid = cmdLoadAppData.id
             THEN rid \in {rspLoadAppData.id, rspLoadAppDataReady.id}
        ELSE IF cid = cmdGetUDI.id /\ rid # rspGetUDI.id THEN FALSE
        ELSE TRUE


(***************************************************************************)
(* The file system: the application image at the path given to load_app.   *)
(* A file is its size and a seed its bytes follow from, so that an image   *)
(* larger than APP_MAXSIZE needs no 100 KiB sequence.                      *)
(***************************************************************************)
NoFile == [exists |-> FALSE, size |-> 0, seed |-> 0]

File(size, seed) == [exists |-> TRUE, size |-> size, seed |-> seed]

\* byte at 0-based offset i of file f
FileByte(f, i) == (f.seed + 3 * (i % 256)) % 256

\* f.read(n) at position pos: at most n bytes, fewer at the end of the file
FileRead(f, pos, n) ==
    [i \in 1..Min(n, Max(0, f.size - pos)) |-> FileByte(f, pos + i - 1)]

\* a digest function whose value is the all-zero string
blake2s_Zero(f) == Zeros(32)

\* _get_digest(file): a 32-byte digest of the file's bytes.  BLAKE2s itself is
\* hashlib's; the stand-in is a deterministic function of the content (its
\* length, first and last byte) that is never the all-zero string.
blake2s(f) ==
    LET first == IF f.size = 0 THEN 0 ELSE FileByte(f, 0)
        last  == IF f.size = 0 THEN 0 ELSE FileByte(f, f.size - 1)
    IN  [j \in 1..DIGEST_SIZE |->
            IF j = 1 THEN 1 + ((f.size + first + last) % 255)
            ELSE (j * ((f.size % 256) + 1) + first + 2 * last) % 256]

(***************************************************************************)
(* Inputs the model draws from                                             *)
(***************************************************************************)
None == <<-1>>

NotSet == <<-1>>

Rep(c, n) == [i \in 1..n |-> c]

\* secrets as code points: ASCII, two- and three-byte characters, and
\* lengths around the 122-byte slot
Secrets ==
    {None, <<>>, <<115, 101, 116, 101, 99>>, <<233>>, <<65, 8364>>,
     Rep(65, 122), Rep(65, 123), Rep(65, 124), Rep(233, 61)}

SmallFile == File(1, 7)

Files ==
    {NoFile}
    \cup {File(n, s) : n \in {0, 1, 127, 128, 300}, s \in {7, 200}}
    \cup {File(APP_MAXSIZE + 1, 7), File(1024 * 1024 * 1337, 7)}

\* every secret with the one-chunk file, two secrets with every file
SecretsFor(f) == IF f = SmallFile THEN Secrets ELSE {None, <<115, 101, 116, 101, 99>>}

\* what the file can become while load_app runs: deleted, truncated,
\* rewritten, grown
FileChangeTargets(f) ==
    {NoFile, [f EXCEPT !.size = f.size \div 2],
     [f EXCEPT !.seed = (f.seed + 1) % 256],
     [f EXCEPT !.size = f.size + CHUNK_SIZE]} \ {f}

\* a digest no file of the model has
WrongDigest == [j \in 1..DIGEST_SIZE |-> IF j = 1 THEN 0 ELSE j]

\* header bytes the device may answer with: the echoed tag and endpoint with
\* every length class, and for length class 1 every tag/endpoint/status mix
RspHeaders ==
    {PackHeader(f, e, l) + 4 * s :
        <<f, e, s, l>> \in
            {q \in {1, 2} \X {2, 3} \X {0, 1} \X (0..3) :
                \/ q[1] = FRAME_ID /\ q[2] = ENDPOINT_FW /\ q[3] = 0
                \/ q[4] = 1
                \/ q[1] = FRAME_ID /\ q[2] = ENDPOINT_FW /\ q[4] = 3}}

RspIds == {rspLoadApp.id, rspLoadAppData.id, rspLoadAppDataReady.id, 153}

\* the bytes that follow the header: response id, status byte, payload
RspBody(id, st, payload, n) == Slice(<<id, st>> \o payload \o Zeros(128), 0, n)

\* a parameter handed to serial.Serial: a number, or None
IntVal(v) == [t |-> "int", v |-> v]

NoneVal == [t |-> "none", v |-> 0]

\* the arguments of the constructor after the device path
Ctor(speed, timeout, connect) == [speed |-> speed, timeout |-> timeout, connect |-> connect]

\* the constructor arguments the model draws from: the defaults, and for
\* speed and timeout the values the tests hand in as invalid (-1, None; a
\* timeout of None is pyserial's blocking read)
Ctors ==
    {Ctor(sp, to, cn) :
        <<sp, to, cn>> \in {IntVal(DEFAULT_SPEED), IntVal(-1), NoneVal}
                           \X {IntVal(DEFAULT_TIMEOUT), IntVal(-1), NoneVal}
                           \X BOOLEAN}

\* the constructor arguments of the with-statements: the default timeout
ScopeCtors == {c \in Ctors : c.timeout = IntVal(DEFAULT_TIMEOUT)}

\* a call made on the handle and how it ended: "ok" or the error raised
CallEv(op, res) == [op |-> op, res |-> res]

(***************************************************************************)
(* State                                                                   *)
(***************************************************************************)
VARIABLES
    fs,            \* the file at the path given to load_app
    changed,       \* the file was changed while load_app ran
    pc,            \* position of the running operation
    phase,         \* which caller send_command returns to
    secret,        \* load_app's argument
    file_size,     \* load_app: os.path.getsize(file)
    file_digest,   \* load_app: _get_digest(file)
    sc_cmd,        \* send_command: its cmd argument
    sc_fid,        \* send_command: its fid argument
    sc_eid,        \* send_command: its eid argument
    sc_data,       \* send_command: its data argument
    frame,         \* send_command: the command frame
    hdr,           \* read_frame: the bytes of the header read
    sc_response,   \* send_command: what read_frame returned
    response,      \* the caller's response, once send_command returned
    fpos,          \* _load_app_data: read position in the open file
    bytes_read,    \* _load_app_data: bytes read so far
    dataframes,    \* _load_app_data: the chunks read
    df_idx,        \* _load_app_data: index of the chunk being sent
    digest,        \* _load_app_data: the digest captured so far
    result_digest, \* load_app: what _load_app_data returned
    outcome,       \* how the operation ended
    wire,          \* history: the frames written to the device
    ncalls,        \* history: calls of send_command
    readyRsp,      \* history: the last data-ready response load_app handled
    xlog,          \* history: the steps of the current call of send_command
    nret,          \* history: returns of send_command
    is_open,       \* TKey.conn.is_open
    scope,         \* where the caller is in its with-statement
    propagated,    \* what left the with-statement
    ctor,          \* the arguments of TKey(device, speed, timeout, connect)
    arg,           \* the argument of parse_header or byte_length called on its own
    calls          \* history: the calls made on the handle and how they ended

vars == <<fs, changed, pc, phase, secret, file_size, file_digest, sc_cmd,
          sc_fid, sc_eid, sc_data, frame, hdr, sc_response, response, fpos,
          bytes_read, dataframes, df_idx, digest, result_digest, outcome, wire,
          ncalls, readyRsp, xlog, nret, is_open, scope, propagated, ctor,
          arg, calls>>

fileVars == <<fs, changed>>

argVars == <<secret, file_size, file_digest>>

sendVars == <<sc_cmd, sc_fid, sc_eid, sc_data, frame, hdr, sc_response>>

loadVars == <<fpos, bytes_read, dataframes, df_idx, digest, result_digest, readyRsp>>

histVars == <<wire, ncalls, xlog, nret>>

connVars == <<is_open, scope, propagated, ctor, calls>>

Init ==
    /\ fs \in Files
    /\ changed = FALSE
    /\ pc = "idle"
    /\ phase = "none"
    /\ secret = None
    /\ file_size = -1
    /\ file_digest = NotSet
    /\ sc_cmd = cmdLoadApp
    /\ sc_fid = FRAME_ID
    /\ sc_eid = ENDPOINT_FW
    /\ sc_data = <<>>
    /\ frame = <<>>
    /\ hdr = <<>>
    /\ sc_response = <<>>
    /\ response = <<>>
    /\ fpos = 0
    /\ bytes_read = 0
    /\ dataframes = <<>>
    /\ df_idx = 0
    /\ digest = <<>>
    /\ result_digest = NotSet
    /\ outcome = Running
    /\ wire = <<>>
    /\ ncalls = 0
    /\ readyRsp = <<>>
    /\ xlog = <<>>
    /\ nret = 0
    /\ is_open = TRUE
    /\ scope = "none"
    /\ propagated = Running
    /\ ctor = Ctor(IntVal(DEFAULT_SPEED), IntVal(DEFAULT_TIMEOUT), TRUE)
    /\ calls = <<CallEv("init", "ok")>>
    /\ arg = 0

\* the error is swallowed and the call of send_command made again
Fail_Retry(e) == pc' = "send" /\ UNCHANGED outcome

\* the operation ends by raising e
Fail(e) == pc' = "done" /\ outcome' = e

(***************************************************************************)
(* The environment: the file changes between two accesses of load_app      *)
(* (after the stat and before the digest read, or before the upload opens  *)
(* it).                                                                    *)
(***************************************************************************)
FileChange ==
    /\ pc \in {"digest", "open"}
    /\ ~changed
    /\ fs.exists
    /\ \E f \in FileChangeTargets(fs) : fs' = f
    /\ changed' = TRUE
    /\ UNCHANGED <<arg, pc, phase, argVars, sendVars, response, loadVars, outcome,
                   histVars, connVars>>

(***************************************************************************)
(* tkey.py: TKey.load_app                                                  *)
(***************************************************************************)
\* the except clause missing: the exception escapes as it is
FileNotFound_Uncaught == [kind |-> "FileNotFoundError", args |-> <<>>]

\* except FileNotFoundError -> TKeyLoadError
FileNotFound == Raise("TKeyLoadError", <<"FileNotFoundError">>)

\* load_app(file, secret), to os.path.getsize(file)
LoadApp ==
    /\ pc = "idle"
    /\ scope \in {"none", "body"}
    /\ \E s \in SecretsFor(fs) : secret' = s
    /\ IF fs.exists
       THEN /\ file_size' = fs.size
            /\ pc' = "digest"
            /\ UNCHANGED outcome
       ELSE /\ Fail(FileNotFound)
            /\ UNCHANGED file_size
    /\ UNCHANGED <<arg, fileVars, phase, file_digest, sendVars, response, loadVars, histVars, connVars>>

\* the limit taken in KiB
TooBig_KiB(size) == size > APP_MAXSIZE * 1024

\* if file_size > APP_MAXSIZE
TooBig(size) == size > APP_MAXSIZE

\* the 127-byte command data: size, secret flag, secret
LoadAppPayload(size, s) ==
    LET blank == Zeros(127)
        sized == [blank EXCEPT ![1] = ToBytesLE4(size)[1], ![2] = ToBytesLE4(size)[2],
                               ![3] = ToBytesLE4(size)[3], ![4] = ToBytesLE4(size)[4]]
    IN  IF s # None
        THEN SliceAssign([sized EXCEPT ![5] = 1], 5, 5 + Len(s), Utf8(s))
        ELSE sized

\* load_app from _get_digest(file) to the call of send_command
LoadApp_Digest ==
    /\ pc = "digest"
    /\ IF ~fs.exists
       THEN /\ Fail(FileNotFound)
            /\ UNCHANGED <<file_digest, sc_cmd, sc_fid, sc_eid, sc_data, phase>>
       ELSE /\ file_digest' = blake2s(fs)
            /\ IF TooBig(file_size)
               THEN /\ Fail(Raise("TKeyLoadError", <<"File too big", file_size, APP_MAXSIZE>>))
                    /\ UNCHANGED <<sc_cmd, sc_fid, sc_eid, sc_data, phase>>
               ELSE /\ sc_cmd' = cmdLoadApp
                    /\ sc_fid' = FRAME_ID
                    /\ sc_eid' = ENDPOINT_FW
                    /\ sc_data' = LoadAppPayload(file_size, secret)
                    /\ phase' = "load_app"
                    /\ pc' = "send"
                    /\ UNCHANGED outcome
    /\ UNCHANGED <<arg, fileVars, secret, file_size, frame, hdr, sc_response, response,
                   loadVars, histVars, connVars>>

(***************************************************************************)
(* proto.py: send_command, write_frame, read_frame                         *)
(***************************************************************************)
\* one step of a call of send_command: the function called, the number of
\* bytes asked of the transport, and what the transport gave
Ev(op, n, data) == [op |-> op, n |-> n, data |-> data]

\* the call raised instead of returning data
Raised == <<-1>>

\* the read events of a call of send_command
Reads(log) == SelectSeq(log, LAMBDA e : e.op = "read")

\* send_command hands the frame over and returns to its caller at once
AfterWrite_NoRead(ph) == "ret"

\* send_command after write_frame: response = read_frame(conn)
AfterWrite(ph) == "read_header"

\* send_command: create_frame, then write_frame.  conn.write either takes
\* the frame or raises SerialException (as it does on a closed port); its
\* count is not looked at.
send_command ==
    /\ pc = "send"
    /\ ncalls' = ncalls + 1
    /\ LET cf == create_frame(sc_cmd, sc_fid, sc_eid, sc_data)
       IN  IF ~cf.ok
           THEN /\ Fail(cf.err)
                /\ xlog' = <<Ev("create_frame", 0, Raised)>>
                /\ UNCHANGED <<frame, wire>>
           ELSE /\ frame' = cf.frame
                /\ \/ /\ is_open
                      /\ wire' = Append(wire, cf.frame)
                      /\ xlog' = <<Ev("create_frame", 0, <<>>),
                                   Ev("write", Len(cf.frame), <<>>)>>
                      /\ pc' = AfterWrite(phase)
                      /\ UNCHANGED outcome
                   \/ /\ Fail(Raise("TKeyWriteError", <<"SerialException">>))
                      /\ xlog' = <<Ev("create_frame", 0, <<>>),
                                   Ev("write", Len(cf.frame), Raised)>>
                      /\ UNCHANGED wire
    /\ UNCHANGED <<arg, fileVars, phase, argVars, sc_cmd, sc_fid, sc_eid, sc_data, hdr,
                   sc_response, response, loadVars, nret, connVars>>

\* the status check left out
IsNOK_Ignored(status) == FALSE

\* read_frame: if status == 1
IsNOK(status) == status = 1

\* an empty header read reported as a protocol error
NoResponseData_Protocol == Raise("TKeyProtocolError", <<"No response data">>)

\* read_frame: if len(data) < 1: raise TKeyReadError('No response data')
NoResponseData == Raise("TKeyReadError", <<"No response data">>)

\* every byte a device may send as a header
AllHeaders == 0..255

\* the response ids of the descriptors, and one that is none of them
AllRspIds == {rspNameVersion.id, rspLoadApp.id, rspLoadAppData.id,
              rspLoadAppDataReady.id, rspGetUDI.id, 153}

\* the header bytes a device may answer with in the given caller
RspHeadersFor(ph) == IF ph = "send_command" THEN AllHeaders ELSE RspHeaders

\* read_frame, from conn.read(1) to the second read: the read raises,
\* returns nothing, or returns one header byte
read_frame_header ==
    /\ pc = "read_header"
    /\ \/ /\ Fail(Raise("TKeyReadError", <<"SerialException">>))
          /\ xlog' = Append(xlog, Ev("read", 1, Raised))
          /\ UNCHANGED hdr
       \/ /\ hdr' = <<>>
          /\ xlog' = Append(xlog, Ev("read", 1, <<>>))
          /\ Fail(NoResponseData)
       \/ \E h \in RspHeadersFor(phase) :
            /\ hdr' = <<h>>
            /\ xlog' = Append(xlog, Ev("read", 1, <<h>>))
            /\ pc' = IF IsNOK(parse_header(h).status) THEN "drain" ELSE "read_body"
            /\ UNCHANGED outcome
    /\ UNCHANGED <<arg, fileVars, phase, argVars, sc_cmd, sc_fid, sc_eid, sc_data, frame,
                   sc_response, response, loadVars, wire, ncalls, nret, connVars>>

\* what conn.read(length) may return for bytes that are thrown away
DrainedBytes(length) == {Zeros(length), Zeros(length - 1)}

\* read_frame on a NOK status: conn.read(length), outside any try, then
\* TKeyStatusError
read_frame_drain ==
    /\ pc = "drain"
    /\ LET length == byte_length(parse_header(hdr[1]).length).value
       IN  \/ \E data \in DrainedBytes(length) :
                /\ xlog' = Append(xlog, Ev("read", length, data))
                /\ Fail(Raise("TKeyStatusError", <<"Response status code not OK (1)">>))
           \/ /\ xlog' = Append(xlog, Ev("read", length, Raised))
              /\ Fail(Raise("SerialException", <<>>))
    /\ UNCHANGED <<arg, fileVars, phase, argVars, sendVars, response, loadVars, wire,
                   ncalls, nret, connVars>>

\* the digests a device may report
DeviceDigests == {file_digest, blake2s(fs), WrongDigest}

\* what conn.read(length) may return for the body: whole or one byte short
RspBodies(length) ==
    {RspBody(id, st, Zeros(DIGEST_SIZE), n) :
        <<id, st, n>> \in (RspIds \ {rspLoadAppDataReady.id}) \X {0, 1} \X {length - 1, length}}
    \cup {RspBody(rspLoadAppDataReady.id, st, dg, n) :
        <<st, dg, n>> \in {0, 1} \X DeviceDigests \X {length - 1, length}}

\* the bodies a device may answer a bare send_command with: any response
\* id, whole or one byte short
SendBodies(length) ==
    {RspBody(id, 0, <<>>, n) : <<id, n>> \in AllRspIds \X {length - 1, length}}

\* the payloads a device may answer cmdNameVersion with: "tk1 ", "mkdf", 5
\* (the names padded with blanks), and one whose first name is not ASCII
NameVersionPayloads ==
    {<<116, 107, 49, 32, 109, 107, 100, 102, 5, 0, 0, 0>>,
     <<200, 107, 49, 32, 109, 107, 100, 102, 5, 0, 0, 0>>}

\* the payloads a device may answer cmdGetUDI with, after the status byte
UDIPayloads == {<<0, 129, 112, 51, 1, 135, 1, 0>>, <<66, 0, 0, 16, 66, 0, 0, 0>>,
                <<129, 112, 51, 1, 135, 1, 0, 0>>}

\* the bodies a device may answer get_name_version or get_udi with: the
\* response of the command or a response with another id, whole or one
\* byte short
InfoBodies(ph, length) ==
    LET whole == IF ph = "get_name_version"
                 THEN {<<rspNameVersion.id>> \o p : p \in NameVersionPayloads}
                 ELSE {<<rspGetUDI.id, 0>> \o p : p \in UDIPayloads}
    IN  {Slice(b \o Zeros(128), 0, n) :
            <<b, n>> \in (whole \cup {<<153>>}) \X {length - 1, length}}

\* what conn.read(length) may return for the body in the given caller
RspBodiesFor(ph, length) ==
    IF ph = "send_command" THEN SendBodies(length)
    ELSE IF ph \in {"get_name_version", "get_udi"} THEN InfoBodies(ph, length)
    ELSE RspBodies(length)

\* any body that is not empty passes for a whole one
LengthMatches_NonEmpty(data, length) == Len(data) >= 1

\* read_frame: len(data) == length
LengthMatches(data, length) == Len(data) = length

\* read_frame from the second conn.read (outside any try) to its return,
\* then send_command's ensure_frames and return.  On return the locals of
\* read_frame and send_command are gone.
read_frame_body ==
    /\ pc = "read_body"
    /\ LET header == hdr[1]
           length == byte_length(parse_header(header).length).value
       IN  \/ /\ Fail(Raise("SerialException", <<>>))
              /\ xlog' = Append(xlog, Ev("read", length, Raised))
              /\ UNCHANGED <<hdr, sc_response, response, nret>>
           \/ \E data \in RspBodiesFor(phase, length) :
                IF ~LengthMatches(data, length)
                THEN /\ Fail(Raise("TKeyProtocolError", <<"Unexpected response data length">>))
                     /\ xlog' = Append(xlog, Ev("read", length, data))
                     /\ UNCHANGED <<hdr, sc_response, response, nret>>
                ELSE /\ xlog' = xlog \o <<Ev("read", length, data),
                                         Ev("ensure_frames", 0, <<>>)>>
                     /\ IF ~ensure_frames(frame, <<header>> \o data)
                        THEN /\ sc_response' = <<header>> \o data
                             /\ Fail(Raise("TKeyProtocolError", <<"Response mismatch">>))
                             /\ UNCHANGED <<hdr, response, nret>>
                        ELSE /\ response' = <<header>> \o data
                             /\ sc_response' = <<>>
                             /\ hdr' = <<>>
                             /\ nret' = nret + 1
                             /\ pc' = "ret"
                             /\ UNCHANGED outcome
    /\ UNCHANGED <<arg, fileVars, phase, argVars, sc_cmd, sc_fid, sc_eid, sc_data, frame,
                   loadVars, wire, ncalls, connVars>>

(***************************************************************************)
(* tkey.py: TKey.load_app after the load-app command, TKey._load_app_data  *)
(***************************************************************************)
\* only a status byte of 0 taken as good news, and 0 as bad
IsBadStatus_Inverted(status) == status = 0

\* a status byte of 1 is STATUS_BAD
IsBadStatus(status) == status = 1

\* load_app: load_status = response[2], then into _load_app_data
LoadApp_Status ==
    /\ pc = "ret"
    /\ phase = "load_app"
    /\ IF Len(response) < 3
       THEN Fail(Raise("IndexError", <<"bytearray index out of range">>))
       ELSE IF IsBadStatus(response[3])
       THEN Fail(Raise("TKeyLoadError", <<"Device not ready (1 = STATUS_BAD)">>))
       ELSE /\ pc' = "open"
            /\ UNCHANGED outcome
    /\ UNCHANGED <<arg, fileVars, phase, argVars, sendVars, response, loadVars, histVars, connVars>>

\* _load_app_data: io.open(file, 'rb')
LoadAppData_Open ==
    /\ pc = "open"
    /\ IF fs.exists
       THEN /\ pc' = "read_file"
            /\ fpos' = 0
            /\ bytes_read' = 0
            /\ dataframes' = <<>>
            /\ UNCHANGED outcome
       ELSE /\ Fail(Raise("FileNotFoundError", <<>>))
            /\ UNCHANGED <<fpos, bytes_read, dataframes>>
    /\ UNCHANGED <<arg, fileVars, phase, argVars, sendVars, response, df_idx, digest,
                   result_digest, readyRsp, histVars, connVars>>

\* _load_app_data: one iteration of while bytes_read < file_size
LoadAppData_Read ==
    /\ pc = "read_file"
    /\ bytes_read < file_size
    /\ Len(dataframes) < MaxReads
    /\ LET data == FileRead(fs, fpos, CHUNK_SIZE)
       IN  /\ dataframes' = Append(dataframes, data)
           /\ bytes_read' = bytes_read + Len(data)
           /\ fpos' = fpos + Len(data)
    /\ UNCHANGED <<arg, fileVars, pc, phase, argVars, sendVars, response, df_idx, digest,
                   result_digest, readyRsp, outcome, histVars, connVars>>

\* _load_app_data: the while loop ends; digest = bytearray(32)
LoadAppData_ReadDone ==
    /\ pc = "read_file"
    /\ ~(bytes_read < file_size)
    /\ digest' = Zeros(32)
    /\ df_idx' = 1
    /\ pc' = "next_df"
    /\ UNCHANGED <<arg, fileVars, phase, argVars, sendVars, response, fpos, bytes_read,
                   dataframes, result_digest, readyRsp, outcome, histVars, connVars>>

\* _load_app_data: for df in dataframes: send_command(cmdLoadAppData, df).
\* The previous response is not read again: it is dropped here, where the
\* call that overwrites it starts.
LoadAppData_Send ==
    /\ pc = "next_df"
    /\ df_idx <= Len(dataframes)
    /\ sc_cmd' = cmdLoadAppData
    /\ sc_fid' = FRAME_ID
    /\ sc_eid' = ENDPOINT_FW
    /\ sc_data' = dataframes[df_idx]
    /\ phase' = "load_app_data"
    /\ response' = <<>>
    /\ pc' = "send"
    /\ UNCHANGED <<arg, fileVars, argVars, frame, hdr, sc_response, loadVars,
                   outcome, histVars, connVars>>

\* digest = bytearray(response[3:][:32])
CaptureDigest(rsp) == Slice(Slice(rsp, 3, Len(rsp)), 0, 32)

\* what the for loop does with a response id: "ready", "next" or "unexpected"
ResponseIdAction(response_id) ==
    IF response_id = rspLoadAppDataReady.id THEN "ready"
    ELSE IF response_id # rspLoadAppData.id THEN "unexpected"
    ELSE "next"

\* _load_app_data: the body of the for loop after send_command returned
LoadAppData_Status ==
    /\ pc = "ret"
    /\ phase = "load_app_data"
    /\ IF Len(response) < 3
       THEN /\ Fail(Raise("ValueError", <<"not enough values to unpack (expected 2, got 1)">>))
            /\ UNCHANGED <<digest, readyRsp, df_idx>>
       ELSE IF IsBadStatus(response[3])
       THEN /\ Fail(Raise("TKeyLoadError", <<"Bad status when writing (1 = STATUS_BAD)">>))
            /\ UNCHANGED <<digest, readyRsp, df_idx>>
       ELSE IF ResponseIdAction(response[2]) = "unexpected"
       THEN /\ Fail(Raise("TKeyProtocolError", <<"Unexpected response code", response[2]>>))
            /\ UNCHANGED <<digest, readyRsp, df_idx>>
       ELSE /\ IF ResponseIdAction(response[2]) = "ready"
               THEN /\ digest' = CaptureDigest(response)
                    /\ readyRsp' = response
               ELSE UNCHANGED <<digest, readyRsp>>
            /\ df_idx' = df_idx + 1
            /\ pc' = "next_df"
            /\ UNCHANGED outcome
    /\ UNCHANGED <<arg, fileVars, phase, argVars, sendVars, response, fpos, bytes_read,
                   dataframes, result_digest, histVars, connVars>>

\* only the lengths compared
DigestsMatch_Length(a, b) == Len(a) = Len(b)

\* if not file_digest == result_digest
DigestsMatch(a, b) == a = b

\* _load_app_data returns bytes(digest); load_app compares the digests
LoadApp_Compare ==
    /\ pc = "next_df"
    /\ df_idx > Len(dataframes)
    /\ result_digest' = digest
    /\ pc' = "done"
    /\ outcome' = IF DigestsMatch(file_digest, digest)
                  THEN Returned
                  ELSE Raise("TKeyLoadError",
                             <<"Hash digests do not match", Hex(file_digest), Hex(digest)>>)
    /\ UNCHANGED <<arg, fileVars, phase, argVars, sendVars, response, fpos, bytes_read,
                   dataframes, df_idx, digest, readyRsp, histVars, connVars>>

(***************************************************************************)
(* tkey.py: TKey.get_name_version, TKey.get_udi                            *)
(***************************************************************************)
\* int.from_bytes(b, byteorder='little')
RECURSIVE FromBytesLE(_)
FromBytesLE(b) == IF b = <<>> THEN 0 ELSE Head(b) + 256 * FromBytesLE(Tail(b))

\* the ASCII characters str.rstrip() takes for whitespace
Whitespace == (9..13) \cup (28..32)

\* str.rstrip()
RECURSIVE RStrip(_)
RStrip(s) ==
    IF s # <<>> /\ s[Len(s)] \in Whitespace
    THEN RStrip(SubSeq(s, 1, Len(s) - 1))
    ELSE s

\* bytes.decode('ascii') raises UnicodeDecodeError on a byte above 127
IsAscii(b) == \A i \in 1..Len(b) : b[i] < 128

\* get_name_version after send_command: the two names and the version, or
\* the UnicodeDecodeError of a name that is not ASCII
ParseNameVersion(rsp) ==
    LET data  == Slice(rsp, 2, Len(rsp))
        name0 == Slice(Slice(data, 0, Len(data)), 0, 4)
        name1 == Slice(Slice(data, 4, Len(data)), 0, 4)
        ver   == Slice(Slice(data, 8, Len(data)), 0, 4)
    IN  IF ~IsAscii(name0) \/ ~IsAscii(name1)
        THEN Raise("UnicodeDecodeError", <<>>)
        ELSE [kind |-> "ok", args |-> <<RStrip(name0), RStrip(name1), FromBytesLE(ver)>>]

\* the two words taken from the byte that follows the response id
ParseUDI_FromStatusByte(rsp) ==
    LET data    == Slice(rsp, 2, Len(rsp))
        product == FromBytesLE(Slice(data, 0, 4))
        serial  == FromBytesLE(Slice(data, 4, 8))
    IN  [kind |-> "ok",
         args |-> <<(product \div 268435456) % 16, (product \div 4096) % 65536,
                    (product \div 64) % 64, product % 64, serial>>]

\* get_udi after send_command: reserved, vendor, pid, revision, serial
ParseUDI(rsp) ==
    LET data    == Slice(rsp, 3, Len(rsp))
        product == FromBytesLE(Slice(data, 0, 4))
        serial  == FromBytesLE(Slice(data, 4, 8))
    IN  [kind |-> "ok",
         args |-> <<(product \div 268435456) % 16, (product \div 4096) % 65536,
                    (product \div 64) % 64, product % 64, serial>>]

\* get_name_version up to the call of send_command
GetNameVersion ==
    /\ pc = "idle"
    /\ scope \in {"none", "body"}
    /\ sc_cmd' = cmdNameVersion
    /\ sc_fid' = FRAME_ID
    /\ sc_eid' = ENDPOINT_FW
    /\ sc_data' = <<>>
    /\ phase' = "get_name_version"
    /\ pc' = "send"
    /\ UNCHANGED <<arg, fileVars, argVars, frame, hdr, sc_response, response, loadVars,
                   outcome, histVars, connVars>>

\* get_name_version from the return of send_command
GetNameVersion_Parse ==
    /\ pc = "ret"
    /\ phase = "get_name_version"
    /\ pc' = "done"
    /\ outcome' = ParseNameVersion(response)
    /\ UNCHANGED <<arg, fileVars, phase, argVars, sendVars, response, loadVars, histVars,
                   connVars>>

\* get_udi up to the call of send_command
GetUDI ==
    /\ pc = "idle"
    /\ scope \in {"none", "body"}
    /\ sc_cmd' = cmdGetUDI
    /\ sc_fid' = FRAME_ID
    /\ sc_eid' = ENDPOINT_FW
    /\ sc_data' = <<>>
    /\ phase' = "get_udi"
    /\ pc' = "send"
    /\ UNCHANGED <<arg, fileVars, argVars, frame, hdr, sc_response, response, loadVars,
                   outcome, histVars, connVars>>

\* get_udi from the return of send_command
GetUDI_Parse ==
    /\ pc = "ret"
    /\ phase = "get_udi"
    /\ pc' = "done"
    /\ outcome' = ParseUDI(response)
    /\ UNCHANGED <<arg, fileVars, phase, argVars, sendVars, response, loadVars, histVars,
                   connVars>>

(***************************************************************************)
(* tkey.py: the handle as a context manager,                               *)
(*     with TKey(device, connect=...) as tk: tk.<operation>()              *)
(* serial.Serial is the environment: its setters take the parameters or    *)
(* raise ValueError, its open() opens the port or raises SerialException.  *)
(***************************************************************************)
\* the setters of serial.Serial raise ValueError for a baud rate that is no
\* number or negative, and for a timeout that is negative (None is taken)
ValidBaud(speed) == speed.t = "int" /\ speed.v >= 0

ValidTimeout(timeout) == timeout.t = "none" \/ timeout.v >= 0

\* the parameters are not looked at before the port is opened
ConfigAccepted_Unchecked(c) == TRUE

\* __init__: the three setters in the try, ValueError -> TKeyConfigError
ConfigAccepted(c) == ValidBaud(c.speed) /\ ValidTimeout(c.timeout)

\* an error of the constructor goes to whoever wrote the with-statement,
\* which is then never entered
Unentered(e) ==
    /\ scope' = IF scope = "with" THEN "unentered" ELSE scope
    /\ propagated' = IF scope = "with" THEN e ELSE propagated

\* TKey.__init__, and __enter__ when the constructor is the head of a
\* with-statement: the body is entered when the constructor returns
TKey_init ==
    /\ pc \in {"new", "with"}
    /\ IF ~ConfigAccepted(ctor)
       THEN /\ Fail(Raise("TKeyConfigError", <<"ValueError">>))
            /\ Unentered(Raise("TKeyConfigError", <<"ValueError">>))
            /\ calls' = Append(calls, CallEv("init", "TKeyConfigError"))
            /\ UNCHANGED is_open
       ELSE \/ /\ ctor.connect
               /\ Fail(Raise("TKeyConnectionError", <<"SerialException">>))
               /\ Unentered(Raise("TKeyConnectionError", <<"SerialException">>))
               /\ calls' = Append(calls, CallEv("init", "TKeyConnectionError"))
               /\ UNCHANGED is_open
            \/ /\ is_open' = ctor.connect
               /\ scope' = IF scope = "with" THEN "body" ELSE scope
               /\ pc' = "idle"
               /\ calls' = Append(calls, CallEv("init", "ok"))
               /\ UNCHANGED <<outcome, propagated>>
    /\ UNCHANGED <<arg, fileVars, phase, argVars, sendVars, response, loadVars, histVars,
                   ctor>>

\* TKey.connect: conn.open() opens a closed port or raises SerialException
\* (as it does on an open one), which becomes TKeyConnectionError; the
\* caller goes on
TKey_connect ==
    /\ pc = "idle"
    /\ Len(calls) < MaxCalls
    /\ \/ /\ ~is_open
          /\ is_open' = TRUE
          /\ calls' = Append(calls, CallEv("connect", "ok"))
       \/ /\ calls' = Append(calls, CallEv("connect", "TKeyConnectionError"))
          /\ UNCHANGED is_open
    /\ UNCHANGED <<arg, fileVars, pc, phase, argVars, sendVars, response, loadVars,
                   outcome, histVars, scope, propagated, ctor>>

\* TKey.disconnect: conn.close()
TKey_disconnect ==
    /\ pc = "idle"
    /\ Len(calls) < MaxCalls
    /\ is_open' = FALSE
    /\ calls' = Append(calls, CallEv("disconnect", "ok"))
    /\ UNCHANGED <<arg, fileVars, pc, phase, argVars, sendVars, response, loadVars,
                   outcome, histVars, scope, propagated, ctor>>

\* test() answers whether a port was given to the handle
TKey_test_HasPort(open) == TRUE

\* TKey.test: return self.conn.is_open
TKey_test(open) == open

\* TKey.__enter__ of a with-statement on a handle made before
TKey_enter ==
    /\ pc = "idle"
    /\ scope \in {"none", "left"}
    /\ Len(calls) < MaxCalls
    /\ scope' = "body"
    /\ calls' = Append(calls, CallEv("enter", "ok"))
    /\ UNCHANGED <<arg, fileVars, pc, phase, argVars, sendVars, response, loadVars,
                   outcome, histVars, is_open, propagated, ctor>>

\* the port is closed only when the body raised nothing
ExitDisconnects_OnSuccess(open, value) == open /\ value.kind = "ok"

\* __exit__(type, value, traceback): if self.test(): self.disconnect()
ExitDisconnects(open, value) == TKey_test(open)

\* TKey.__exit__, called when the body is left: by its end (here a body
\* that called no operation, or whose operation returned) or by the
\* exception of its operation.  It returns False: the exception goes on.
TKey_exit ==
    /\ scope = "body"
    /\ pc \in {"idle", "done"}
    /\ LET value == IF pc = "idle" THEN Returned ELSE outcome
       IN  /\ is_open' = IF ExitDisconnects(is_open, value) THEN FALSE ELSE is_open
           /\ propagated' = value
    /\ scope' = "left"
    /\ calls' = Append(calls, CallEv("exit", "ok"))
    /\ UNCHANGED <<arg, fileVars, pc, phase, argVars, sendVars, response, loadVars,
                   histVars, outcome, ctor>>

Next ==
    \/ FileChange
    \/ LoadApp
    \/ LoadApp_Digest
    \/ send_command
    \/ read_frame_header
    \/ read_frame_drain
    \/ read_frame_body
    \/ LoadApp_Status
    \/ LoadAppData_Open
    \/ LoadAppData_Read
    \/ LoadAppData_ReadDone
    \/ LoadAppData_Send
    \/ LoadAppData_Status
    \/ LoadApp_Compare

Spec == Init /\ [][Next]_vars

(***************************************************************************)
(* Properties of load_app                                                  *)
(***************************************************************************)
\* the operation has ended
Done == pc = "done"

\* _load_app_data ran to its end and load_app compared the digests
UploadFinished == Done /\ result_digest # NotSet

\* the digest at frame bytes 3..34 of the last data-ready response handled;
\* with no such response, the initial bytearray(32)
ReportedDigest ==
    IF readyRsp = <<>> THEN Zeros(32) ELSE Slice(readyRsp, 3, 35)

\* C1: once the upload phase has run to its end, load_app returns without
\* error when the digest reported by the device equals the local digest of
\* the file, and raises TKeyLoadError naming both hex digests when they
\* differ.
C1_DigestRoundTrip ==
    UploadFinished =>
        /\ ReportedDigest = file_digest => outcome = Returned
        /\ ReportedDigest # file_digest =>
              outcome = Raise("TKeyLoadError",
                              <<"Hash digests do not match",
                                Hex(file_digest), Hex(ReportedDigest)>>)

C1_Witness ==
    /\ UploadFinished
    /\ readyRsp # <<>>
    /\ ReportedDigest = file_digest
    /\ outcome = Returned

\* ceil(n / 127)
NumChunks(n) == (n + 126) \div 127

\* bytes 127(i-1) .. 127i-1 of the file, taken from the file itself
ExpectedChunk(i) ==
    [k \in 1..Min(127, fs.size - 127 * (i - 1)) |-> FileByte(fs, 127 * (i - 1) + k - 1)]

\* the load-app-data frame of chunk i: header, command id, chunk, zero padding
ExpectedChunkFrame(i) ==
    <<FRAME_ID * 32 + ENDPOINT_FW * 8 + 3, 5>> \o ExpectedChunk(i)
        \o Zeros(127 - Len(ExpectedChunk(i)))

\* the load-app-data frames written so far
ChunkFramesSent == SelectSeq(wire, LAMBDA f : f[2] = 5)

RECURSIVE Concat(_)
Concat(ss) == IF ss = <<>> THEN <<>> ELSE Head(ss) \o Concat(Tail(ss))

\* C2: for an unchanged file of 0 < n <= 102400 bytes, the load-app-data
\* frames written are, in file order, the frames of the 127-byte chunks of
\* the file; when the device accepted every chunk there are ceil(n/127) of
\* them, one dispatcher call each, every chunk but the last has 127 bytes
\* and the chunks concatenated are the file.
C2_Chunking ==
    (fs.exists /\ ~changed /\ 0 < file_size /\ file_size <= 102400) =>
        /\ Len(ChunkFramesSent) <= NumChunks(file_size)
        /\ \A i \in 1..Len(ChunkFramesSent) : ChunkFramesSent[i] = ExpectedChunkFrame(i)
        /\ UploadFinished =>
              /\ Len(ChunkFramesSent) = NumChunks(file_size)
              /\ ncalls = 1 + NumChunks(file_size)
              /\ Len(dataframes) = NumChunks(file_size)
              /\ \A i \in 1..Len(dataframes) : dataframes[i] = ExpectedChunk(i)
              /\ \A i \in 1..(Len(dataframes) - 1) : Len(dataframes[i]) = 127
              /\ Len(dataframes[Len(dataframes)]) \in 1..127
              /\ Concat(dataframes) = FileRead(fs, 0, file_size)

C2_Witness ==
    /\ UploadFinished
    /\ ~changed
    /\ file_size = 300
    /\ Len(ChunkFramesSent) = 3
    /\ ncalls = 4
    /\ <<Len(dataframes[1]), Len(dataframes[2]), Len(dataframes[3])>> = <<127, 127, 46>>

\* the header read in the exchange that failed has its status bit (bit 2) set
HeaderNOK == hdr # <<>> /\ (hdr[1] \div 4) % 2 = 1

\* bit 3 of that header, the low bit of the endpoint field
HeaderBit3 == (hdr[1] \div 8) % 2

C4_ReadyIsTerminal == readyRsp # <<>> => pc # "send"

\* C5: of the responses to a load-app-data chunk, one with another id than
\* 0x06 and 0x07 ends load_app with TKeyProtocolError, one with id 0x06 (and
\* no bad status byte) lets the upload go on, and one with id 0x07 has the 32
\* bytes at frame offsets 3..34 captured as the digest.
C5_ResponseIds ==
    /\ (Done /\ phase = "load_app_data" /\ sc_response # <<>>
             /\ sc_response[2] \notin {6, 7})
          => outcome.kind = "TKeyProtocolError"
    /\ (Done /\ phase = "load_app_data" /\ ~UploadFinished /\ response # <<>>
             /\ response[2] = 6)
          => (Len(response) >= 3 /\ response[3] = 1)
    /\ readyRsp # <<>> => (Len(digest) = 32 /\ digest = Slice(readyRsp, 3, 35))

\* the secret's encoded length
EncodedLen(s) == IF s = None THEN 0 ELSE Len(Utf8(s))

\* C6: a secret whose UTF-8 encoding is longer than 122 bytes is rejected
\* with TKeyConfigError before the load-app command is dispatched.
C6_LongSecretRejected ==
    (EncodedLen(secret) > 122 /\ pc \notin {"idle", "digest"}) =>
        /\ Done
        /\ outcome.kind \in {"TKeyConfigError", "TKeyLoadError"}
        /\ (fs.exists /\ ~changed /\ file_size <= 102400) => outcome.kind = "TKeyConfigError"
        /\ ncalls = 0
        /\ wire = <<>>

\* C7: the payload passed to the load-app command is 127 bytes: the size as
\* little-endian u32, the secret flag, the secret's bytes from offset 5, and
\* zeros, for every secret of at most 122 encoded bytes.
C7_PayloadLayout ==
    (pc = "send" /\ phase = "load_app" /\ EncodedLen(secret) <= 122) =>
        /\ Len(sc_data) = 127
        /\ \A k \in 1..Min(127, Len(sc_data)) :
              sc_data[k] =
                 IF k = 1 THEN file_size % 256
                 ELSE IF k = 2 THEN (file_size \div 256) % 256
                 ELSE IF k = 3 THEN (file_size \div 65536) % 256
                 ELSE IF k = 4 THEN (file_size \div 16777216) % 256
                 ELSE IF k = 5 THEN (IF secret = None THEN 0 ELSE 1)
                 ELSE IF secret # None /\ k - 5 <= Len(Utf8(secret)) THEN Utf8(secret)[k - 5]
                 ELSE 0

\* C8: a file whose size exceeds 102400 bytes ends load_app with
\* TKeyLoadError, with no dispatcher call made and no frame written.
C8_TooBigRejected ==
    (file_size > 102400 /\ pc # "digest") =>
        /\ Done
        /\ outcome.kind = "TKeyLoadError"
        /\ ncalls = 0
        /\ wire = <<>>

C8_Witness ==
    /\ Done
    /\ file_size = 1024 * 1024 * 1337
    /\ ~changed
    /\ outcome = Raise("TKeyLoadError", <<"File too big", file_size, 102400>>)
    /\ ncalls = 0

\* C9: a response handed to load_app whose status byte (frame offset 2) is 1
\* ends load_app with TKeyLoadError, for the load-app command and for every
\* chunk.
C9_BadStatusIsLoadError ==
    (response # <<>> /\ Len(response) >= 3 /\ response[3] = 1) =>
        \/ pc = "ret"
        \/ Done /\ outcome.kind = "TKeyLoadError" /\ ~UploadFinished

C9_Witness ==
    /\ Done
    /\ phase = "load_app_data"
    /\ df_idx = 2
    /\ Len(response) >= 3
    /\ response[3] = 1
    /\ outcome.kind = "TKeyLoadError"

\* C10: load_app on a file that does not exist ends with TKeyLoadError and
\* writes no frame.
C10_MissingFile ==
    (pc # "idle" /\ ~fs.exists /\ ~changed) =>
        /\ Done
        /\ outcome.kind = "TKeyLoadError"
        /\ ncalls = 0
        /\ wire = <<>>

C10_Witness ==
    /\ Done
    /\ ~fs.exists
    /\ ~changed
    /\ outcome.kind = "TKeyLoadError"
    /\ wire = <<>>

(***************************************************************************)
(* proto.py: send_command on its own.  A caller hands it a command, a      *)
(* frame id, an endpoint and data; the device answers with any header      *)
(* byte and any response id.                                               *)
(***************************************************************************)
\* a command that is none of the module's descriptors
cmdOther == [id |-> 10, length |-> 0]

\* the cmd arguments of send_command
SendCommands == {cmdNameVersion, cmdLoadApp, cmdLoadAppData, cmdGetUDI, cmdOther}

\* the fid arguments of send_command: as TKey passes it, and out of range
SendFrameIds == {FRAME_ID, 4}

\* the eid arguments of send_command: ENDPOINT_FW and ENDPOINT_APP
SendEndpoints == {ENDPOINT_FW, 3}

\* the data arguments of send_command
SendData == {<<>>, <<7>>}

InitSend ==
    /\ fs = NoFile
    /\ changed = FALSE
    /\ pc = "send"
    /\ phase = "send_command"
    /\ secret = None
    /\ file_size = -1
    /\ file_digest = NotSet
    /\ sc_cmd \in SendCommands
    /\ sc_fid \in SendFrameIds
    /\ sc_eid \in SendEndpoints
    /\ sc_data \in SendData
    /\ frame = <<>>
    /\ hdr = <<>>
    /\ sc_response = <<>>
    /\ response = <<>>
    /\ fpos = 0
    /\ bytes_read = 0
    /\ dataframes = <<>>
    /\ df_idx = 0
    /\ digest = <<>>
    /\ result_digest = NotSet
    /\ outcome = Running
    /\ wire = <<>>
    /\ ncalls = 0
    /\ readyRsp = <<>>
    /\ xlog = <<>>
    /\ nret = 0
    /\ is_open = TRUE
    /\ scope = "none"
    /\ propagated = Running
    /\ ctor = Ctor(IntVal(DEFAULT_SPEED), IntVal(DEFAULT_TIMEOUT), TRUE)
    /\ calls = <<CallEv("init", "ok")>>
    /\ arg = 0

NextSend ==
    \/ send_command
    \/ read_frame_header
    \/ read_frame_drain
    \/ read_frame_body

SpecSend == InitSend /\ [][NextSend]_vars

(***************************************************************************)
(* Properties of send_command and read_frame                               *)
(***************************************************************************)
\* the functions a call of send_command went through, in order
Steps(log) == [i \in 1..Len(log) |-> log[i].op]

\* the steps of a call that got as far as the correlation check: the frame
\* is read with a header read and a body read
AllSteps == <<"create_frame", "write", "read", "read", "ensure_frames">>

IsPrefix(a, b) == Len(a) <= Len(b) /\ a = SubSeq(b, 1, Len(a))

\* the frame read_frame put together in this call
FrameRead == Reads(xlog)[1].data \o Reads(xlog)[2].data

\* send_command returned to its caller
SendReturned == pc = "ret"

\* send_command raised TKeyProtocolError('Response mismatch')
Mismatch == Done /\ outcome = Raise("TKeyProtocolError", <<"Response mismatch">>)

\* C11: a call of send_command goes through create_frame, one conn.write,
\* the reads of one frame and ensure_frames, in this order; it returns when
\* the check says yes, and what it returns is the frame as read; it raises
\* TKeyProtocolError('Response mismatch') when the check says no.
C11_SendSteps ==
    /\ IsPrefix(Steps(xlog), AllSteps)
    /\ Len(wire) <= 1
    /\ SendReturned =>
        /\ Steps(xlog) = AllSteps
        /\ wire = <<frame>>
        /\ frame = create_frame(sc_cmd, sc_fid, sc_eid, sc_data).frame
        /\ response = FrameRead
        /\ ensure_frames(frame, response)
    /\ Mismatch =>
        /\ Steps(xlog) = AllSteps
        /\ wire = <<frame>>
        /\ ~ensure_frames(frame, FrameRead)
    /\ Steps(xlog) = AllSteps => SendReturned \/ Mismatch

\* a call returned a frame of 129 bytes read from the device
C11_Witness ==
    /\ phase = "send_command"
    /\ SendReturned
    /\ Len(response) = 129
    /\ response = FrameRead
    /\ sc_eid = 3

\* the fields of a header byte, by the layout of the framing protocol
FrameIdOf(b) == (b \div 32) % 4

EndpointOf(b) == (b \div 8) % 4

StatusBitOf(b) == (b \div 4) % 2

LengthClassOf(b) == b % 4

\* the response ids the descriptors pair with a command id
RspIdsOf(cid) ==
    IF cid = cmdNameVersion.id THEN {rspNameVersion.id}
    ELSE IF cid = cmdLoadApp.id THEN {rspLoadApp.id}
    ELSE IF cid = cmdLoadAppData.id THEN {rspLoadAppData.id, rspLoadAppDataReady.id}
    ELSE IF cid = cmdGetUDI.id THEN {rspGetUDI.id}
    ELSE {}

\* the correlation rule: same frame id and endpoint, and a response id
\* paired with the command id
Match(cmd_frame, rsp_frame) ==
    /\ FrameIdOf(cmd_frame[1]) = FrameIdOf(rsp_frame[1])
    /\ EndpointOf(cmd_frame[1]) = EndpointOf(rsp_frame[1])
    /\ rsp_frame[2] \in RspIdsOf(cmd_frame[2])

\* the correlation check was made in this call
Checked == Steps(xlog) = AllSteps

\* C12: ensure_frames says yes exactly when the two frames have the same
\* frame id and endpoint and the response id is one the descriptors pair
\* with the command id; it says no for a command id they pair with nothing.
C12_MatchIffPaired ==
    Checked => (ensure_frames(frame, FrameRead) <=> Match(frame, FrameRead))

\* C13: ensure_frames says no whenever the response differs from the command
\* in frame id or endpoint, whatever the response id; send_command returns no
\* response that differs from its command in frame id or endpoint.
C13_TagAndEndpoint ==
    /\ Checked /\ <<FrameIdOf(FrameRead[1]), EndpointOf(FrameRead[1])>>
                    # <<FrameIdOf(frame[1]), EndpointOf(frame[1])>>
        => ~ensure_frames(frame, FrameRead) /\ Mismatch
    /\ SendReturned =>
        /\ FrameIdOf(response[1]) = sc_fid
        /\ EndpointOf(response[1]) = sc_eid

\* a response with the id paired with the command, and another frame id,
\* was turned down
C13_Witness ==
    /\ phase = "send_command"
    /\ Mismatch
    /\ sc_cmd = cmdGetUDI
    /\ FrameRead[2] = rspGetUDI.id
    /\ FrameIdOf(FrameRead[1]) # sc_fid
    /\ EndpointOf(FrameRead[1]) = sc_eid

\* read_frame is over: it returned a frame or raised
ReadFrameOver ==
    /\ Reads(xlog) # <<>>
    /\ SendReturned \/ Done

\* the header byte read in this call
HeaderRead == Reads(xlog)[1].data[1]

\* no read of this call raised
NoReadRaised == \A i \in 1..Len(Reads(xlog)) : Reads(xlog)[i].data # Raised

\* the first read of this call gave a header byte
GotHeader ==
    /\ Reads(xlog) # <<>>
    /\ Reads(xlog)[1].data # Raised
    /\ Reads(xlog)[1].data # <<>>

\* C14: for every header byte with bit 2 set, read_frame asks the transport
\* for byte_length(length class) more bytes, throws them away and raises
\* TKeyStatusError; it returns no such frame.  (Stated for the calls in
\* which the transport raised nothing.)
C14_NokDrainsAndFails ==
    GotHeader /\ StatusBitOf(HeaderRead) = 1 /\ ReadFrameOver /\ NoReadRaised =>
        /\ Len(Reads(xlog)) = 2
        /\ Reads(xlog)[2].n = PROTO_DATA_LENGTH[LengthClassOf(HeaderRead) + 1]
        /\ Done
        /\ outcome.kind = "TKeyStatusError"

\* C15: the first read of read_frame asks for 1 byte; when it gives nothing
\* or raises, read_frame raises TKeyReadError and has made no other read.
C15_HeaderReadFails ==
    Reads(xlog) # <<>> =>
        /\ Reads(xlog)[1].n = 1
        /\ Reads(xlog)[1].data \in {<<>>, Raised} =>
            /\ Done
            /\ outcome.kind = "TKeyReadError"
            /\ Len(Reads(xlog)) = 1

\* the header read gave nothing and the call ended
C15_Witness ==
    /\ phase = "send_command"
    /\ Done
    /\ Steps(xlog) = <<"create_frame", "write", "read">>
    /\ Reads(xlog)[1].data = <<>>
    /\ outcome = Raise("TKeyReadError", <<"No response data">>)

\* C16: a read of read_frame that raises (header, body or drain) ends the
\* call with TKeyReadError.
C16_ReadFailureIsReadError ==
    (\E i \in 1..Len(Reads(xlog)) : Reads(xlog)[i].data = Raised) =>
        /\ Done
        /\ outcome.kind = "TKeyReadError"

\* the frame read_frame returned in this call, whether or not send_command
\* then let it through
FrameReturned == IF SendReturned THEN response ELSE sc_response

\* C17: after a header with bit 2 clear read_frame asks for
\* byte_length(length class) bytes; given fewer it raises
\* TKeyProtocolError('Unexpected response data length'), given all of them
\* it returns the header byte followed by them, 1 + byte_length bytes.
C17_BodyRead ==
    GotHeader /\ StatusBitOf(HeaderRead) = 0 /\ ReadFrameOver =>
        LET length == PROTO_DATA_LENGTH[LengthClassOf(HeaderRead) + 1]
            body   == Reads(xlog)[2]
        IN  /\ Len(Reads(xlog)) = 2
            /\ body.n = length
            /\ body.data # Raised /\ Len(body.data) < length =>
                /\ Done
                /\ outcome = Raise("TKeyProtocolError",
                                   <<"Unexpected response data length">>)
                /\ FrameReturned = <<>>
            /\ body.data # Raised /\ Len(body.data) = length =>
                /\ Checked
                /\ FrameReturned = <<HeaderRead>> \o body.data
                /\ Len(FrameReturned) = 1 + length

\* a body one byte short of 32 was turned down
C17_Witness ==
    /\ phase = "send_command"
    /\ GotHeader
    /\ StatusBitOf(HeaderRead) = 0
    /\ LengthClassOf(HeaderRead) = 2
    /\ Len(Reads(xlog)) = 2
    /\ Len(Reads(xlog)[2].data) = 31
    /\ outcome = Raise("TKeyProtocolError", <<"Unexpected response data length">>)

(***************************************************************************)
(* Properties of the exchanges of an operation                             *)
(***************************************************************************)
\* the current call of send_command failed in create_frame
EncodeFailed == xlog = <<Ev("create_frame", 0, Raised)>>

\* the current call of send_command failed in write_frame
WriteFailed ==
    /\ Steps(xlog) = <<"create_frame", "write">>
    /\ xlog[2].data = Raised

\* the operation has failed
Failed == outcome.kind \notin {"running", "ok"}

\* where an operation stands after each of its calls of send_command: no
\* call is made before the one before it returned, and none after a failure
C18_OneAttempt ==
    /\ outcome # Running => pc = "done"
    /\ Len(wire) <= ncalls
    /\ ncalls <= nret + 1
    /\ Failed => ncalls \in {0, nret, nret + 1}
    /\ phase = "load_app" => ncalls <= 1
    /\ phase = "load_app_data" => ncalls <= 1 + df_idx
    /\ EncodeFailed => Done /\ Failed /\ Len(wire) = ncalls - 1
    /\ WriteFailed => Done /\ Failed /\ Len(wire) = ncalls - 1 /\ Reads(xlog) = <<>>

\* C18: no retries.  Once a step of an exchange has failed the operation is
\* over: nothing more is written, read or sent, the failed frame included;
\* a failure of create_frame leaves the transport untouched and a failure
\* of the write is followed by no read.
C18_NoRetry ==
    /\ []C18_OneAttempt
    /\ [][Failed => wire' = wire /\ ncalls' = ncalls /\ xlog' = xlog
                    /\ pc' = pc /\ outcome' = outcome]_vars

\* the upload of a three-chunk file ended at the read of the response to
\* its first chunk, the other two chunks unsent
C18_Witness ==
    /\ Done
    /\ phase = "load_app_data"
    /\ outcome.kind = "TKeyReadError"
    /\ Len(dataframes) = 3
    /\ ncalls = 2
    /\ Len(wire) = 2
    /\ Len(Reads(xlog)) = 1

\* the exchange of the last call of send_command is complete: a whole frame
\* was read and it matches the frame written last
ExchangeComplete ==
    /\ Steps(xlog) = AllSteps
    /\ NoReadRaised
    /\ Len(Reads(xlog)[2].data) = Reads(xlog)[2].n
    /\ Match(wire[Len(wire)], FrameRead)
    /\ nret = Len(wire)

\* a frame is written to the device in this step
Writes == Len(wire') > Len(wire)

\* a read of the device is made in this step
ReadsDevice == Len(Reads(xlog')) > Len(Reads(xlog)) /\ Len(xlog') > Len(xlog)

\* C19: one exchange at a time.  A frame is written only when every frame
\* written before has had its response read whole and passed correlation,
\* and the device is read only while the frame written last is unanswered.
C19_OneExchangeAtATime ==
    /\ [](nret <= Len(wire) /\ Len(wire) <= nret + 1)
    /\ [][Writes => /\ wire' = Append(wire, frame')
                    /\ Len(wire) > 0 => ExchangeComplete]_vars
    /\ [][ReadsDevice => Len(wire) = nret + 1]_vars

\* the second chunk is written after the response to the first was read
C19_Witness ==
    /\ pc = "read_header"
    /\ phase = "load_app_data"
    /\ df_idx = 2
    /\ Len(wire) = 3
    /\ nret = 2
    /\ xlog = <<Ev("create_frame", 0, <<>>), Ev("write", 129, <<>>)>>

(***************************************************************************)
(* The handle in a with-statement                                          *)
(***************************************************************************)
InitScope ==
    /\ fs \in Files
    /\ changed = FALSE
    /\ pc = "with"
    /\ phase = "none"
    /\ secret = None
    /\ file_size = -1
    /\ file_digest = NotSet
    /\ sc_cmd = cmdLoadApp
    /\ sc_fid = FRAME_ID
    /\ sc_eid = ENDPOINT_FW
    /\ sc_data = <<>>
    /\ frame = <<>>
    /\ hdr = <<>>
    /\ sc_response = <<>>
    /\ response = <<>>
    /\ fpos = 0
    /\ bytes_read = 0
    /\ dataframes = <<>>
    /\ df_idx = 0
    /\ digest = <<>>
    /\ result_digest = NotSet
    /\ outcome = Running
    /\ wire = <<>>
    /\ ncalls = 0
    /\ readyRsp = <<>>
    /\ xlog = <<>>
    /\ nret = 0
    /\ is_open = FALSE
    /\ scope = "with"
    /\ propagated = Running
    /\ ctor \in ScopeCtors
    /\ calls = <<>>
    /\ arg = 0

NextScope ==
    \/ TKey_init
    \/ GetNameVersion
    \/ GetNameVersion_Parse
    \/ GetUDI
    \/ GetUDI_Parse
    \/ Next
    \/ TKey_exit

SpecScope == InitScope /\ [][NextScope]_vars

\* C20: when the with-statement has been left, whether its body ended or an
\* operation in it raised, the port is closed and what the body raised is
\* what the caller of the with-statement gets.
C20_ScopeReleases ==
    /\ scope = "left" =>
        /\ ~is_open
        /\ propagated = (IF outcome = Running THEN Returned ELSE outcome)
    /\ scope = "unentered" => ~is_open /\ Failed /\ propagated = outcome
    /\ propagated # Running => scope \in {"left", "unentered"}

\* a with-statement that opened the port and whose load_app was refused by
\* the device has been left
C20_Witness ==
    /\ scope = "left"
    /\ phase = "load_app"
    /\ Len(wire) = 1
    /\ outcome.kind = "TKeyLoadError"
    /\ propagated = outcome
    /\ ~is_open

(***************************************************************************)
(* The handle on its own: a constructor call, then connect(),              *)
(* disconnect() and with-statements on the handle in any order             *)
(***************************************************************************)
InitHandle ==
    /\ fs = NoFile
    /\ changed = FALSE
    /\ pc = "new"
    /\ phase = "none"
    /\ secret = None
    /\ file_size = -1
    /\ file_digest = NotSet
    /\ sc_cmd = cmdLoadApp
    /\ sc_fid = FRAME_ID
    /\ sc_eid = ENDPOINT_FW
    /\ sc_data = <<>>
    /\ frame = <<>>
    /\ hdr = <<>>
    /\ sc_response = <<>>
    /\ response = <<>>
    /\ fpos = 0
    /\ bytes_read = 0
    /\ dataframes = <<>>
    /\ df_idx = 0
    /\ digest = <<>>
    /\ result_digest = NotSet
    /\ outcome = Running
    /\ wire = <<>>
    /\ ncalls = 0
    /\ readyRsp = <<>>
    /\ xlog = <<>>
    /\ nret = 0
    /\ is_open = FALSE
    /\ scope = "none"
    /\ propagated = Running
    /\ ctor \in Ctors
    /\ calls = <<>>
    /\ arg = 0

NextHandle ==
    \/ TKey_init
    \/ TKey_connect
    \/ TKey_disconnect
    \/ TKey_enter
    \/ TKey_exit

SpecHandle == InitHandle /\ [][NextHandle]_vars

\* the constructor was given a baud rate that is no number or negative, or
\* a negative read timeout
InvalidConfig ==
    \/ ctor.speed.t # "int"
    \/ ctor.speed.v < 0
    \/ ctor.timeout.t = "int" /\ ctor.timeout.v < 0

\* the port was opened at some time
EverOpened ==
    \/ is_open
    \/ \E i \in 1..Len(calls) :
        calls[i].res = "ok" /\ calls[i].op \in {"connect", "disconnect", "enter", "exit"}

\* C21: a constructor given an invalid baud rate or read timeout raises
\* TKeyConfigError and nothing else happens: the port is not opened, with
\* connect=True as well, and nothing is written or read.
C21_InvalidConfig ==
    InvalidConfig =>
        /\ ~EverOpened
        /\ wire = <<>> /\ xlog = <<>>
        /\ calls # <<>> =>
            /\ calls = <<CallEv("init", "TKeyConfigError")>>
            /\ Done
            /\ outcome.kind = "TKeyConfigError"

\* a constructor asked to connect with a timeout of -1 has raised
C21_Witness ==
    /\ ctor = Ctor(IntVal(DEFAULT_SPEED), IntVal(-1), TRUE)
    /\ calls = <<CallEv("init", "TKeyConfigError")>>
    /\ outcome.kind = "TKeyConfigError"
    /\ ~is_open

\* whether the port is open after the calls cs, call by call: a constructor
\* or connect() that returned opens it, disconnect() and the exit of a
\* with-statement close it, a call that raised changes nothing
RECURSIVE OpenAfter(_)
OpenAfter(cs) ==
    IF cs = <<>> THEN FALSE
    ELSE LET e      == cs[Len(cs)]
             before == OpenAfter(SubSeq(cs, 1, Len(cs) - 1))
         IN  IF e.res # "ok" THEN before
             ELSE IF e.op = "init" THEN ctor.connect
             ELSE IF e.op = "connect" THEN TRUE
             ELSE IF e.op \in {"disconnect", "exit"} THEN FALSE
             ELSE before

\* the last call made on the handle
LastCall == calls[Len(calls)]

\* C22: after any calls of connect(), disconnect() and exits of
\* with-statements, test() is true exactly when the port is open: false on a
\* handle made without connect, true after a connect() that returned, false
\* after disconnect() and after a with-statement, false after a connect()
\* that raised TKeyConnectionError on a closed port.
C22_TestTellsOpen ==
    calls # <<>> /\ calls[1].res = "ok" =>
        /\ TKey_test(is_open) = OpenAfter(calls)
        /\ calls = <<CallEv("init", "ok")>> /\ ~ctor.connect => ~TKey_test(is_open)
        /\ LastCall = CallEv("connect", "ok") => TKey_test(is_open)
        /\ LastCall.op \in {"disconnect", "exit"} => ~TKey_test(is_open)
        /\ LastCall = CallEv("connect", "TKeyConnectionError")
           /\ ~OpenAfter(SubSeq(calls, 1, Len(calls) - 1)) => ~TKey_test(is_open)

\* a handle was connected, disconnected, and a connect() then failed
C22_Witness ==
    /\ calls = <<CallEv("init", "ok"), CallEv("connect", "ok"),
                 CallEv("disconnect", "ok"), CallEv("connect", "TKeyConnectionError")>>
    /\ ~TKey_test(is_open)

(***************************************************************************)
(* proto.py: create_frame, parse_header and byte_length called on their    *)
(* own, with arguments inside and outside their ranges                     *)
(***************************************************************************)
\* the cmd arguments: ids and length values at and beyond both ends
CodecCommands == {[id |-> i, length |-> l] : <<i, l>> \in {-1, 0, 1, 255, 256} \X (-1..4)}

\* the frame_id and endpoint arguments
CodecFields == -1..4

\* n bytes of data, none of them zero
DataOf(n) == [i \in 1..n |-> 1 + (i % 255)]

\* the data arguments: around every entry of PROTO_DATA_LENGTH
CodecData == {DataOf(n) : n \in {0, 1, 2, 3, 4, 5, 31, 32, 33, 127, 128, 129}}

\* the index arguments of byte_length
CodecIndexes == -6..6

InitCodec ==
    /\ fs = NoFile
    /\ changed = FALSE
    /\ pc = "call"
    /\ phase \in {"create_frame", "parse_header", "byte_length"}
    /\ secret = None
    /\ file_size = -1
    /\ file_digest = NotSet
    /\ IF phase = "create_frame"
       THEN /\ sc_cmd \in CodecCommands
            /\ sc_fid \in CodecFields
            /\ sc_eid \in CodecFields
            /\ sc_data \in CodecData
            /\ arg = 0
       ELSE /\ sc_cmd = cmdLoadApp
            /\ sc_fid = FRAME_ID
            /\ sc_eid = ENDPOINT_FW
            /\ sc_data = <<>>
            /\ arg \in IF phase = "parse_header" THEN AllHeaders ELSE CodecIndexes
    /\ frame = <<>>
    /\ hdr = <<>>
    /\ sc_response = <<>>
    /\ response = <<>>
    /\ fpos = 0
    /\ bytes_read = 0
    /\ dataframes = <<>>
    /\ df_idx = 0
    /\ digest = <<>>
    /\ result_digest = NotSet
    /\ outcome = Running
    /\ wire = <<>>
    /\ ncalls = 0
    /\ readyRsp = <<>>
    /\ xlog = <<>>
    /\ nret = 0
    /\ is_open = FALSE
    /\ scope = "none"
    /\ propagated = Running
    /\ ctor = Ctor(IntVal(DEFAULT_SPEED), IntVal(DEFAULT_TIMEOUT), FALSE)
    /\ calls = <<>>

\* create_frame(sc_cmd, sc_fid, sc_eid, sc_data)
Call_create_frame ==
    /\ pc = "call"
    /\ phase = "create_frame"
    /\ LET cf == create_frame(sc_cmd, sc_fid, sc_eid, sc_data)
       IN  IF cf.ok
           THEN /\ frame' = cf.frame
                /\ outcome' = Returned
                /\ pc' = "done"
           ELSE /\ Fail(cf.err)
                /\ UNCHANGED frame
    /\ UNCHANGED <<arg, fileVars, phase, argVars, sc_cmd, sc_fid, sc_eid, sc_data, hdr,
                   sc_response, response, loadVars, histVars, connVars>>

\* parse_header(arg)
Call_parse_header ==
    /\ pc = "call"
    /\ phase = "parse_header"
    /\ LET h == parse_header(arg)
       IN  outcome' = [kind |-> "ok",
                       args |-> <<h.frame_id, h.endpoint, h.status, h.length>>]
    /\ pc' = "done"
    /\ UNCHANGED <<arg, fileVars, phase, argVars, sendVars, response, loadVars,
                   histVars, connVars>>

\* byte_length(arg)
Call_byte_length ==
    /\ pc = "call"
    /\ phase = "byte_length"
    /\ LET bl == byte_length(arg)
       IN  IF bl.ok
           THEN /\ outcome' = [kind |-> "ok", args |-> <<bl.value>>]
                /\ pc' = "done"
           ELSE Fail(bl.err)
    /\ UNCHANGED <<arg, fileVars, phase, argVars, sendVars, response, loadVars,
                   histVars, connVars>>

NextCodec ==
    \/ Call_create_frame
    \/ Call_parse_header
    \/ Call_byte_length

SpecCodec == InitCodec /\ [][NextCodec]_vars

(***************************************************************************)
(* Properties of the codec                                                 *)
(***************************************************************************)
\* the table of data lengths of the framing protocol
Table == <<1, 4, 32, 128>>

\* create_frame was called and returned a frame
Encoded == phase = "create_frame" /\ Done /\ outcome = Returned

\* the data length the header of the frame stands for
FrameDataLength == Table[sc_cmd.length + 1]

\* C23: every frame create_frame returns has 1 + byte_length(cmd.length)
\* bytes, for every data length it accepts, 0 to byte_length(cmd.length).
C23_FrameLength == Encoded => Len(frame) = 1 + FrameDataLength

BadArguments ==
    \/ sc_cmd.id \notin 0..255
    \/ sc_fid \notin 0..3
    \/ sc_eid \notin 0..3
    \/ sc_cmd.length \notin 0..3
    \/ Len(sc_data) > FrameDataLength

\* C25: create_frame raises TKeyProtocolError, and returns no frame, for a
\* command id outside 0..255, a frame id, endpoint or length outside 0..3
\* (negative ones too) and for data longer than byte_length(cmd.length).
C25_BadArgumentsRejected ==
    phase = "create_frame" /\ Done /\ BadArguments =>
        /\ outcome.kind = "TKeyProtocolError"
        /\ frame = <<>>

\* a frame id of -1 with everything else in range was turned down
C25_Witness ==
    /\ phase = "create_frame"
    /\ Done
    /\ sc_fid = -1
    /\ sc_cmd = [id |-> 1, length |-> 3]
    /\ sc_eid = ENDPOINT_FW
    /\ sc_data = DataOf(5)
    /\ outcome.kind = "TKeyProtocolError"

\* C26: in a frame create_frame returns, byte 0 is
\* (frame_id << 5) | (endpoint << 3) | length with bits 7 and 2 clear, byte
\* 1 the command id, the data follows from offset 2 and every other byte is
\* zero.
C26_FrameLayout ==
    Encoded =>
        /\ frame[1] = 32 * sc_fid + 8 * sc_eid + sc_cmd.length
        /\ frame[1] \div 128 = 0
        /\ (frame[1] \div 4) % 2 = 0
        /\ frame[2] = sc_cmd.id
        /\ \A i \in 1..Len(sc_data) : frame[2 + i] = sc_data[i]
        /\ \A i \in (3 + Len(sc_data))..Len(frame) : frame[i] = 0

\* command 0x01 of length 0 with frame id 1 and endpoint 2: 0x30, 0x01
C26_Witness ==
    /\ Encoded
    /\ sc_cmd = cmdNameVersion
    /\ sc_fid = 1
    /\ sc_eid = ENDPOINT_FW
    /\ sc_data = <<>>
    /\ frame = <<48, 1>>

\* C27: parse_header gives back the frame id, endpoint and length that
\* create_frame packed into the header byte.
C27_HeaderRoundTrip ==
    Encoded =>
        /\ parse_header(frame[1]).frame_id = sc_fid
        /\ parse_header(frame[1]).endpoint = sc_eid
        /\ parse_header(frame[1]).length = sc_cmd.length

\* a header packed from frame id 1, endpoint 3 and length 2
C27_Witness ==
    /\ Encoded
    /\ sc_fid = 1
    /\ sc_eid = 3
    /\ sc_cmd.length = 2
    /\ frame[1] = 58

\* C28: parse_header(b) is ((b>>5)&3, (b>>3)&3, (b>>2)&1, b&3) for every
\* byte b; its status is 0 or 1, and 0 for the header of every frame
\* create_frame returns.
C28_HeaderFields ==
    /\ phase = "parse_header" /\ Done =>
        /\ outcome.args = <<(arg \div 32) % 4, (arg \div 8) % 4, (arg \div 4) % 2, arg % 4>>
        /\ outcome.args[3] \in {0, 1}
    /\ Encoded => parse_header(frame[1]).status = 0

\* C29: byte_length(index) is the entry of [1, 4, 32, 128] at index, for
\* index 0, 1, 2, 3.
C29_ByteLengthTable ==
    phase = "byte_length" /\ Done /\ arg \in 0..3 =>
        outcome = [kind |-> "ok", args |-> <<Table[arg + 1]>>]

\* byte_length(2) returned 32
C29_Witness ==
    /\ phase = "byte_length"
    /\ Done
    /\ arg = 2
    /\ outcome.args = <<32>>

\* C30: byte_length raises TKeyProtocolError for every index outside 0..3,
\* above and below, and returns no size for it.
C30_ByteLengthOutOfRange ==
    phase = "byte_length" /\ Done /\ arg \notin 0..3 =>
        outcome.kind = "TKeyProtocolError"

(***************************************************************************)
(* Properties of get_udi, checked under SpecScope                          *)
(***************************************************************************)
\* get_udi has returned its tuple
UDIReturned == phase = "get_udi" /\ Done /\ outcome.kind = "ok"

\* the byte at offset k of the response frame, 0 where the frame has ended
ResponseByte(k) == IF k < Len(response) THEN response[k + 1] ELSE 0

\* the little-endian 32-bit word at offsets k..k+3 of the response frame
ResponseWord(k) ==
    ResponseByte(k) + 256 * ResponseByte(k + 1) + 65536 * ResponseByte(k + 2)
        + 16777216 * ResponseByte(k + 3)

\* the bytes of the UDI example
UDIExample == <<0, 129, 112, 51, 1, 135, 1, 0>>

\* what the UDI example is to yield: (0, 0x1337, 2, 1, 0x187)
UDIExampleFields == <<0, 4919, 2, 1, 391>>

LoadSucceeded == Done /\ outcome = Returned

\* the load-app-data frames written to the device
DataFramesSent == {i \in 1..Len(wire) : wire[i][2] = cmdLoadAppData.id}

\* C32: load_app returns without error only if a data-ready response (id
\* 0x07) was received in its upload phase and the digest of the last one
\* equals the local digest; an upload without a data-ready response, that
\* of an empty file (no chunk sent) included, does not end in success.
C32_SuccessNeedsReady ==
    /\ LoadSucceeded =>
          /\ UploadFinished
          /\ readyRsp # <<>>
          /\ readyRsp[2] = rspLoadAppDataReady.id
          /\ ReportedDigest = file_digest
    /\ (UploadFinished /\ readyRsp = <<>>) => outcome.kind = "TKeyLoadError"
    /\ (UploadFinished /\ file_size = 0) =>
          /\ DataFramesSent = {}
          /\ readyRsp = <<>>
          /\ outcome.kind = "TKeyLoadError"

\* a two-chunk upload has succeeded on the digest of a data-ready response
C32_Witness ==
    /\ LoadSucceeded
    /\ Len(dataframes) = 2
    /\ Cardinality(DataFramesSent) = 2
    /\ readyRsp # <<>>
    /\ ReportedDigest = file_digest

\* the upload of an empty file has run to its end
C32_EmptyFile == UploadFinished /\ file_size = 0 /\ readyRsp = <<>>

(***************************************************************************)
(* Termination of the read loop of _load_app_data.  load_app runs in one   *)
(* thread and is never suspended: whenever it has a step to take it takes  *)
(* one.  In the model the list of chunks is capped at MaxReads entries; a  *)
(* loop that has read MaxReads chunks and still has bytes_read < file_size *)
(* stays at the loop for ever.                                             *)
(***************************************************************************)
SpecFair == Init /\ [][Next]_vars /\ WF_vars(Next)

\* the while loop of _load_app_data is running
InReadLoop == pc = "read_file"

\* the loop goes on and the file has no byte left at the read position: the
\* read gives b'', bytes_read stays and the next turn finds the same
ReadsNothing ==
    InReadLoop /\ bytes_read < file_size /\ FileRead(fs, fpos, CHUNK_SIZE) = <<>>

\* the cap on the chunks cuts no loop that would end: a loop that has read
\* MaxReads chunks and goes on reads nothing (an invariant of Spec)
CapCutsIdleLoopsOnly ==
    (InReadLoop /\ bytes_read < file_size /\ Len(dataframes) >= MaxReads) => ReadsNothing

\* C33: the loop that splits the file into 127-byte chunks ends after
\* finitely many reads, whatever the file holds and whatever size the stat
\* reported, also when the file yields fewer bytes than that size.
C33_ReadLoopTerminates == InReadLoop ~> ~InReadLoop

(***************************************************************************)
(* Bytes taken from the transport by one exchange, checked under SpecSend  *)
(***************************************************************************)
\* the number of bytes the reads of a call took from the transport
RECURSIVE BytesTaken(_)
BytesTaken(reads) ==
    IF reads = <<>> THEN 0
    ELSE (IF Head(reads).data = Raised THEN 0 ELSE Len(Head(reads).data))
             + BytesTaken(Tail(reads))

\* the device had a whole frame for this call: every read got the bytes it
\* asked for
WholeFrameSupplied ==
    /\ GotHeader
    /\ \A i \in 1..Len(Reads(xlog)) :
          /\ Reads(xlog)[i].data # Raised
          /\ Len(Reads(xlog)[i].data) = Reads(xlog)[i].n

\* C34: when the device supplies a whole frame, read_frame takes exactly
\* 1 + byte_length(length class of the header) bytes from the transport,
\* whether it returns the frame, raises TKeyStatusError or returns a frame
\* that send_command then turns down, so that the next byte on the
\* transport is the header of the next frame.
C34_WholeFrameTaken ==
    ReadFrameOver /\ WholeFrameSupplied =>
        /\ Len(Reads(xlog)) = 2
        /\ BytesTaken(Reads(xlog)) = 1 + Table[LengthClassOf(HeaderRead) + 1]
        /\ \/ SendReturned
           \/ Done /\ outcome.kind = "TKeyStatusError"
           \/ Mismatch

\* a NOK frame of 1 + 32 bytes was taken whole and TKeyStatusError raised
C34_Witness ==
    /\ phase = "send_command"
    /\ ReadFrameOver
    /\ WholeFrameSupplied
    /\ StatusBitOf(HeaderRead) = 1
    /\ LengthClassOf(HeaderRead) = 2
    /\ BytesTaken(Reads(xlog)) = 33
    /\ outcome.kind = "TKeyStatusError"

(***************************************************************************)
(* The frames send_command returns to TKey, checked under SpecScope        *)
(***************************************************************************)
\* the length value the descriptors declare for a response id
DeclaredLength(rid) ==
    CASE rid = rspNameVersion.id      -> rspNameVersion.length
      [] rid = rspLoadApp.id          -> rspLoadApp.length
      [] rid = rspLoadAppData.id      -> rspLoadAppData.length
      [] rid = rspLoadAppDataReady.id -> rspLoadAppDataReady.length
      [] rid = rspGetUDI.id           -> rspGetUDI.length
      [] OTHER                        -> -1

\* C35: every response frame send_command returns to a method of TKey has
\* the length value the descriptors declare for its response id (0x02: 2,
\* 0x04: 1, 0x06: 1, 0x07: 3, 0x09: 2) and so the bytes the method reads.
C35_DeclaredLength ==
    (SendReturned /\ phase \in {"load_app", "load_app_data", "get_name_version", "get_udi"}) =>
        /\ LengthClassOf(response[1]) = DeclaredLength(response[2])
        /\ Len(response) = 1 + Table[DeclaredLength(response[2]) + 1]

=============================================================================
